---- MODULE Spec2Model ----
(***************************************************************************)
(* Discovery-driven connection lifecycle and relay manager of the panel    *)
(* (persistentWsManager.ts, the relay upgrade listener, the mDNS plugin).  *)
(*                                                                         *)
(* The manager's two maps are keyed by service name and no handler reads   *)
(* or writes the entry of another name, so the model follows ONE service   *)
(* name: targetConnections is the map's entry for that name.               *)
(*                                                                         *)
(* TargetConnectionState objects live in a small heap (connState) because  *)
(* the open handler and the reconnect-timer callback close over the object *)
(* they were created with, which may no longer be the one in the map.      *)
(* Upstream sockets live in slots (sockets); a slot is reused once its     *)
(* socket has emitted 'close' (readyState CLOSED, no further event).       *)
(***************************************************************************)
EXTENDS Integers, Sequences, FiniteSets, TLC

\* ---- bounds of the model ----
MaxSockets == 2
MaxStates == 2
MaxObservers == 2
MaxMessages == 2
MaxSends == 2

\* ---- program constants (persistentWsManager.ts:6-9) ----
INITIAL_RECONNECT_DELAY == 1000
MAX_RECONNECT_DELAY == 30000
RECONNECT_BACKOFF_FACTOR == 2
MAX_RECONNECT_ATTEMPTS == 10
MAX_MESSAGES_PER_SERVICE == 500

\* close codes used by the manager
NORMAL == 1000
ABNORMAL == 1011

Sockets == 1..MaxSockets
States == 1..MaxStates
Observers == 1..MaxObservers

\* 0.9 + Math.random() * 0.2 with Math.random() in [0,1), in thousandths
JitterPermille == {900, 1000, 1099}

\* new WebSocket(url) throws only on a malformed URL; the address of a
\* DiscoveredService is an mDNS A record inside TARGET_SUBNET, so the
\* constructor does not throw on the inputs the program receives.
ConstructorThrows == {FALSE}

\* outside the close handler, scheduleReconnect runs only in the catch branch
\* of connectToTarget: Math.random() is drawn only there
JitterIf(throws) == IF throws THEN JitterPermille ELSE {1000}

VARIABLES
  targetConnections,  \* id of the state object mapped to the name, 0 = no entry
  connState,          \* heap of TargetConnectionState objects
  sockets,            \* upstream WebSocket objects
  frontendClients,    \* the Set mapped to the name (no entry = empty set)
  frontends,          \* observer WebSocket objects
  lastLog,            \* what the last handler reported (console / HTTP reply)
  lastDelay,          \* delay (ms) of the setTimeout the last handler issued, 0 = none
  lastClosed,         \* the observers the last handler force-closed, with code and reason
  registry,           \* storage item 'discovered': the list of DiscoveredService
  health,             \* the health-check round in flight, if any
  arrived,            \* number of upstream messages received so far (message k is the k-th)
  sent,               \* number of messages observers have sent so far (message k is the k-th)
  forwarded,          \* observer messages written to the upstream, in order
  undelivered,        \* observer messages that arrived while the upstream handle was not OPEN
  intercepted,        \* storage item 'intercepted:<name>': the stored messages
  interceptors,       \* the interceptMessage invocation of each upstream message
  stopped,            \* TRUE once the Nitro 'close' hook has run shutdownManager
  writers,            \* the registry read-modify-write cycles in flight
  mdns                \* the plugin's module variables and what they started

vars == <<targetConnections, connState, sockets, frontendClients, frontends,
          lastLog, lastDelay, lastClosed, registry, health,
          arrived, sent, forwarded, undelivered, intercepted, interceptors,
          stopped, writers, mdns>>

discovery == <<registry, health, writers, mdns>>
interception == <<intercepted, interceptors>>
traffic == <<arrived, sent, undelivered, interception>>

\* an interceptMessage invocation: not started ("idle"), awaiting getItem
\* ("get"), awaiting setItem with the list it is writing ("set"), awaiting the
\* bridge configuration ("bridge"), finished ("done"), or ended in the catch
\* block by a storage error ("failed")
IdleInterceptor == [pc |-> "idle", messages |-> << >>]

ServiceName == "alpha"
Addresses == {"172.50.0.5"}

\* the port a service advertises, and the one it advertises after a move
DefaultPort == 25575
Ports == {DefaultPort, DefaultPort + 1}

\* a registry read-modify-write cycle (updateStoredServices or the delete
\* handler): not running ("idle") or between its getItem and the setItem of
\* the list it computed ("set"); kind = who runs it
MaxWriters == 2

\* startMdnsDiscovery invocations: call k creates browser k and interval k.
\* browserInstance / healthCheckInterval are the module variables (0 = null),
\* browsers / intervals the browsers not stopped and the intervals not
\* cleared, calls[k] the position of invocation k: not made ("idle"),
\* suspended at `await initializeServiceStorage()` ("await"), returned ("done")
MaxStarts == 3
Starts == 1..MaxStarts
StoppedMdns == [browserInstance |-> 0, healthCheckInterval |-> 0,
                browsers |-> {}, intervals |-> {},
                calls |-> [k \in Starts |-> "idle"]]
Writers == 1..MaxWriters
IdleWriter == [pc |-> "idle", kind |-> "", list |-> << >>]
IdleHealth == [pc |-> "idle", list |-> << >>, pending |-> {}, changed |-> FALSE]
NoneClosed == [who |-> {}, code |-> 0, reason |-> ""]

\* a TargetConnectionState: ws (socket slot, 0 = null), reconnectTimer
\* (TRUE = a timer is pending), reconnectAttempts, isClosingIntentionally
BlankState == [ws |-> 0, timer |-> FALSE, attempts |-> 0, closing |-> FALSE]

\* an upstream socket: phase, and st = the state object its open handler
\* closes over.  ABORTED = close() was called while CONNECTING (readyState
\* CLOSING, 'error' and 'close' still to be emitted).
BlankSocket == [rs |-> "CLOSED", st |-> 0]

\* an observer socket: rs, inbox = the upstream messages written to it,
\* binary = the binary option each of them was sent with,
\* since = the number of upstream messages that had arrived when it attached
BlankFrontend == [rs |-> "CLOSED", inbox |-> << >>, binary |-> << >>, since |-> 0]

RECURSIVE Pow(_, _)
Pow(b, e) == IF e = 0 THEN 1 ELSE b * Pow(b, e - 1)

Min(a, b) == IF a < b THEN a ELSE b

\* the manager's state as one value, so that handlers compose as the code's calls do
Pack == [tc |-> targetConnections, st |-> connState, sk |-> sockets,
         fc |-> frontendClients, fe |-> frontends, fwd |-> forwarded,
         log |-> "", delay |-> 0, closed |-> NoneClosed, ovf |-> FALSE,
         down |-> stopped]

readyState(m, s) == IF m.sk[s].rs = "ABORTED" THEN "CLOSING" ELSE m.sk[s].rs

\* ---- allocation in the bounded heap / slots ----
Referenced(m, id) ==
  \/ m.tc = id
  \/ m.st[id].timer
  \/ \E s \in Sockets : m.sk[s].rs = "CONNECTING" /\ m.sk[s].st = id

FreeStates(m) == {id \in States : ~Referenced(m, id)}
FreeSockets(m) == {s \in Sockets : m.sk[s].rs = "CLOSED"}
Least(S) == CHOOSE x \in S : \A y \in S : x <= y

\* objects nothing can reach any more are blanked; the ws field of an object
\* that left the map is never read again (handlers read the map's object)
Normalize(m) ==
  [m EXCEPT
     !.st = [id \in States |->
               IF ~Referenced(m, id) THEN BlankState
               ELSE IF m.tc # id THEN [m.st[id] EXCEPT !.ws = 0]
               ELSE m.st[id]],
     !.sk = [s \in Sockets |->
               IF m.sk[s].rs = "CONNECTING" THEN m.sk[s]
               ELSE [m.sk[s] EXCEPT !.st = 0]]]

\* ---- persistentWsManager.ts ----

\* faulty variant: the observers are closed but the set is kept
closeAssociatedFrontendClientsKeepsSet(m, code, reason) ==
  LET who == {o \in m.fc : m.fe[o].rs \in {"OPEN", "CONNECTING"}} IN
  [m EXCEPT
     !.fe = [o \in Observers |->
               IF o \in who THEN [m.fe[o] EXCEPT !.rs = "CLOSING"] ELSE m.fe[o]],
     !.closed = IF who = {} THEN @
                ELSE [who |-> who, code |-> code, reason |-> reason]]

closeAssociatedFrontendClients(m, code, reason) ==
  LET who == {o \in m.fc : m.fe[o].rs \in {"OPEN", "CONNECTING"}} IN
  [m EXCEPT
     !.fe = [o \in Observers |->
               IF o \in who THEN [m.fe[o] EXCEPT !.rs = "CLOSING"] ELSE m.fe[o]],
     !.closed = IF who = {} THEN @
                ELSE [who |-> who, code |-> code, reason |-> reason],
     !.fc = {}]

\* faulty variant: the delay is not capped at MAX_RECONNECT_DELAY
ReconnectDelayUncapped(attempts, jitter) ==
  (INITIAL_RECONNECT_DELAY * Pow(RECONNECT_BACKOFF_FACTOR, attempts) * jitter) \div 1000

ReconnectDelay(attempts, jitter) ==
  (Min(INITIAL_RECONNECT_DELAY * Pow(RECONNECT_BACKOFF_FACTOR, attempts),
       MAX_RECONNECT_DELAY) * jitter) \div 1000

\* faulty variant: the attempt counter is incremented before the delay is computed
scheduleReconnectIncrementFirst(m, jitter) ==
  LET id == m.tc IN
  IF id = 0 \/ m.st[id].closing \/ m.st[id].attempts >= MAX_RECONNECT_ATTEMPTS
  THEN IF id # 0 /\ m.st[id].attempts >= MAX_RECONNECT_ATTEMPTS
       THEN closeAssociatedFrontendClients(
              [m EXCEPT !.tc = 0, !.log = "giveup"], ABNORMAL, "retries")
       ELSE m
  ELSE [m EXCEPT !.st[id].attempts = @ + 1,
                 !.st[id].timer = TRUE,
                 !.delay = ReconnectDelay(m.st[id].attempts + 1, jitter)]

\* faulty variant: exhausted retries leave the session and its observers alone
scheduleReconnectNoGiveUp(m, jitter) ==
  LET id == m.tc IN
  IF id = 0 \/ m.st[id].closing \/ m.st[id].attempts >= MAX_RECONNECT_ATTEMPTS
  THEN m
  ELSE [m EXCEPT !.st[id].attempts = @ + 1,
                 !.st[id].timer = TRUE,
                 !.delay = ReconnectDelay(m.st[id].attempts, jitter)]

\* faulty variant: the limit is tested with > instead of >=
scheduleReconnectOneMore(m, jitter) ==
  LET id == m.tc IN
  IF id = 0 \/ m.st[id].closing \/ m.st[id].attempts > MAX_RECONNECT_ATTEMPTS
  THEN IF id # 0 /\ m.st[id].attempts > MAX_RECONNECT_ATTEMPTS
       THEN closeAssociatedFrontendClients(
              [m EXCEPT !.tc = 0, !.log = "giveup"], ABNORMAL, "retries")
       ELSE m
  ELSE [m EXCEPT !.st[id].attempts = @ + 1,
                 !.st[id].timer = TRUE,
                 !.delay = ReconnectDelay(m.st[id].attempts, jitter)]

scheduleReconnect(m, jitter) ==
  LET id == m.tc IN
  IF id = 0 \/ m.st[id].closing \/ m.st[id].attempts >= MAX_RECONNECT_ATTEMPTS
  THEN IF id # 0 /\ m.st[id].attempts >= MAX_RECONNECT_ATTEMPTS
       THEN closeAssociatedFrontendClients(
              [m EXCEPT !.tc = 0, !.log = "giveup"], ABNORMAL, "retries")
       ELSE m
  ELSE [m EXCEPT !.st[id].attempts = @ + 1,
                 !.st[id].timer = TRUE,
                 !.delay = ReconnectDelay(m.st[id].attempts, jitter)]

connectToTarget(m, throws, jitter) ==
  LET m1 == IF m.tc # 0 THEN m
            ELSE IF FreeStates(m) = {} THEN [m EXCEPT !.ovf = TRUE]
            ELSE LET id == Least(FreeStates(m)) IN
                 [m EXCEPT !.tc = id, !.st[id] = BlankState]
      id == m1.tc
  IN IF m1.ovf THEN m1
     ELSE IF m1.st[id].ws # 0
             /\ readyState(m1, m1.st[id].ws) \in {"CONNECTING", "OPEN"}
     THEN m1
     ELSE IF throws
     THEN LET m2 == [m1 EXCEPT !.st[id].ws = 0] IN
          IF ~m2.st[id].closing THEN scheduleReconnect(m2, jitter) ELSE m2
     ELSE IF FreeSockets(m1) = {} THEN [m1 EXCEPT !.ovf = TRUE]
     ELSE LET s == Least(FreeSockets(m1)) IN
          [m1 EXCEPT !.sk[s] = [rs |-> "CONNECTING", st |-> id],
                     !.st[id].ws = s,
                     !.st[id].closing = FALSE]

\* faulty variant: a successful open does not reset the attempt counter
onOpenKeepsAttempts(m, s) ==
  LET id == m.sk[s].st IN
  [m EXCEPT !.sk[s].rs = "OPEN",
            !.st[id].timer = FALSE]

\* targetWs.on('open'): `state` is the object connectToTarget ran with
onOpen(m, s) ==
  LET id == m.sk[s].st IN
  [m EXCEPT !.sk[s].rs = "OPEN",
            !.st[id].attempts = 0,
            !.st[id].timer = FALSE]

\* faulty variant: the close event of an intentionally closed session leaves
\* the session in the map
onCloseKeepsSession(m, s, jitter) ==
  LET m0 == [m EXCEPT !.sk[s] = BlankSocket]
      cs == m0.tc
      m1 == IF cs = 0 THEN m0
            ELSE LET n == [m0 EXCEPT !.st[cs].ws = 0] IN
                 IF ~n.st[cs].closing THEN scheduleReconnect(n, jitter)
                 ELSE n
  IN IF cs = 0 \/ ~m0.st[cs].closing
     THEN closeAssociatedFrontendClients(m1, ABNORMAL, "disconnected")
     ELSE m1

\* targetWs.on('close')
onClose(m, s, jitter) ==
  LET m0 == [m EXCEPT !.sk[s] = BlankSocket]
      cs == m0.tc
      m1 == IF cs = 0 THEN m0
            ELSE LET n == [m0 EXCEPT !.st[cs].ws = 0] IN
                 IF ~n.st[cs].closing THEN scheduleReconnect(n, jitter)
                 ELSE [n EXCEPT !.tc = 0]
  IN IF cs = 0 \/ ~m0.st[cs].closing
     THEN closeAssociatedFrontendClients(m1, ABNORMAL, "disconnected")
     ELSE m1

\* faulty variant: the error handler drops the session, so that the close
\* event that follows finds nothing to reconnect
onErrorDropsSession(m, s) ==
  LET m0 == [m EXCEPT !.sk[s].rs = IF @ = "ABORTED" THEN "ABORTED" ELSE "CLOSING"]
  IN closeAssociatedFrontendClients([m0 EXCEPT !.tc = 0], ABNORMAL, "error")

\* faulty variant: the error handler starts the reconnect sequence itself
onErrorSchedules(m, s) ==
  LET m0 == [m EXCEPT !.sk[s].rs = IF @ = "ABORTED" THEN "ABORTED" ELSE "CLOSING"]
      cs == m0.tc
      m1 == IF cs = 0 THEN m0
            ELSE scheduleReconnect([m0 EXCEPT !.st[cs].ws = 0], 1000)
  IN closeAssociatedFrontendClients(m1, ABNORMAL, "error")

\* targetWs.on('error'); the socket is already CLOSING when ws emits it
onError(m, s) ==
  LET m0 == [m EXCEPT !.sk[s].rs = IF @ = "ABORTED" THEN "ABORTED" ELSE "CLOSING"]
      cs == m0.tc
      m1 == IF cs = 0 THEN m0 ELSE [m0 EXCEPT !.st[cs].ws = 0]
  IN closeAssociatedFrontendClients(m1, ABNORMAL, "error")

getOpenTargetWebSocket(m) ==
  IF m.tc # 0 /\ m.st[m.tc].ws # 0 /\ readyState(m, m.st[m.tc].ws) = "OPEN"
  THEN m.st[m.tc].ws ELSE 0

hasActiveTargetConnection(m) ==
  m.tc # 0 /\ m.st[m.tc].ws # 0
  /\ readyState(m, m.st[m.tc].ws) \in {"OPEN", "CONNECTING"}

\* faulty variant: an existing session is reset and reconnected whatever its handle
initializeTargetConnectionAlwaysResets(m, throws, jitter) ==
  IF m.tc = 0
  THEN IF FreeStates(m) = {} THEN [m EXCEPT !.ovf = TRUE]
       ELSE LET id == Least(FreeStates(m)) IN
            connectToTarget([m EXCEPT !.tc = id, !.st[id] = BlankState],
                            throws, jitter)
  ELSE LET id == m.tc IN
       connectToTarget(
         [m EXCEPT !.st[id].closing = FALSE, !.st[id].timer = FALSE,
                   !.st[id].attempts = 0],
         throws, jitter)

\* faulty variant: a re-initialization keeps the attempt counter and the timer
initializeTargetConnectionKeepsBackoff(m, throws, jitter) ==
  IF m.tc = 0
  THEN IF FreeStates(m) = {} THEN [m EXCEPT !.ovf = TRUE]
       ELSE LET id == Least(FreeStates(m)) IN
            connectToTarget([m EXCEPT !.tc = id, !.st[id] = BlankState],
                            throws, jitter)
  ELSE LET id == m.tc
           m1 == [m EXCEPT !.st[id].closing = FALSE]
       IN IF m1.st[id].ws = 0
             \/ readyState(m1, m1.st[id].ws) \in {"CLOSED", "CLOSING"}
          THEN connectToTarget(m1, throws, jitter)
          ELSE m1

initializeTargetConnection(m, throws, jitter) ==
  IF m.tc = 0
  THEN IF FreeStates(m) = {} THEN [m EXCEPT !.ovf = TRUE]
       ELSE LET id == Least(FreeStates(m)) IN
            connectToTarget([m EXCEPT !.tc = id, !.st[id] = BlankState],
                            throws, jitter)
  ELSE LET id == m.tc
           m1 == [m EXCEPT !.st[id].closing = FALSE]
       IN IF m1.st[id].ws = 0
             \/ readyState(m1, m1.st[id].ws) \in {"CLOSED", "CLOSING"}
          THEN connectToTarget(
                 [m1 EXCEPT !.st[id].timer = FALSE, !.st[id].attempts = 0],
                 throws, jitter)
          ELSE m1

\* ws.close() of the library: CONNECTING aborts the handshake, OPEN starts the
\* closing handshake; both leave readyState CLOSING
wsClose(rs) == IF rs = "CONNECTING" THEN "ABORTED"
               ELSE IF rs = "OPEN" THEN "CLOSING" ELSE rs

\* faulty variant: the session is not marked as closing intentionally
closeTargetConnectionUnmarked(m) ==
  IF m.tc = 0 THEN m
  ELSE LET id == m.tc
           m1 == [m EXCEPT !.st[id].timer = FALSE]
           w == m1.st[id].ws
           m2 == IF w # 0 /\ readyState(m1, w) \in {"OPEN", "CONNECTING"}
                 THEN [m1 EXCEPT !.sk[w].rs = wsClose(@)]
                 ELSE [m1 EXCEPT !.tc = 0]
       IN closeAssociatedFrontendClients(m2, NORMAL, "removed")

closeTargetConnection(m) ==
  IF m.tc = 0 THEN m
  ELSE LET id == m.tc
           m1 == [m EXCEPT !.st[id].closing = TRUE, !.st[id].timer = FALSE]
           w == m1.st[id].ws
           m2 == IF w # 0 /\ readyState(m1, w) \in {"OPEN", "CONNECTING"}
                 THEN [m1 EXCEPT !.sk[w].rs = wsClose(@)]
                 ELSE [m1 EXCEPT !.tc = 0]
       IN closeAssociatedFrontendClients(m2, NORMAL, "removed")

\* every session of the map is marked, its timer cancelled and its handle
\* closed; then both maps are cleared
shutdownManager(m) ==
  LET id == m.tc
      m1 == IF id = 0 THEN m
            ELSE [m EXCEPT !.st[id].closing = TRUE, !.st[id].timer = FALSE]
      w == IF id = 0 THEN 0 ELSE m1.st[id].ws
      m2 == IF w # 0 /\ readyState(m1, w) \in {"OPEN", "CONNECTING"}
            THEN [m1 EXCEPT !.sk[w].rs = wsClose(@)]
            ELSE m1
  IN [m2 EXCEPT !.tc = 0, !.fc = {}, !.down = TRUE]

addFrontendClient(m, o) == [m EXCEPT !.fc = @ \cup {o}]

\* faulty variant: the upstream is closed when its last observer leaves
removeFrontendClientClosesIdle(m, o) ==
  IF m.fc \ {o} = {} THEN closeTargetConnection([m EXCEPT !.fc = {}])
  ELSE [m EXCEPT !.fc = @ \ {o}]

\* faulty variant: the whole set of the service is dropped
removeFrontendClientDropsSet(m, o) == [m EXCEPT !.fc = {}]

removeFrontendClient(m, o) == [m EXCEPT !.fc = @ \ {o}]

\* faulty variant: the message is written to whatever handle the session holds
sendMessageToTargetAnyState(m, message) ==
  IF m.tc # 0 /\ m.st[m.tc].ws # 0
  THEN [m EXCEPT !.fwd = Append(@, message)]
  ELSE [m EXCEPT !.log = "cannot send"]

sendMessageToTarget(m, message) ==
  IF m.tc # 0 /\ m.st[m.tc].ws # 0 /\ readyState(m, m.st[m.tc].ws) = "OPEN"
  THEN [m EXCEPT !.fwd = Append(@, message)]
  ELSE [m EXCEPT !.log = "cannot send"]

\* faulty variant: the broadcast stops after the first writable observer
onMessageFirstClientOnly(m, message, isBinary) ==
  LET open == {o \in m.fc : m.fe[o].rs = "OPEN"} IN
  [m EXCEPT !.fe = [o \in Observers |->
                      IF open # {} /\ o = Least(open)
                      THEN [m.fe[o] EXCEPT !.inbox = Append(@, message),
                                           !.binary = Append(@, isBinary)]
                      ELSE m.fe[o]]]

\* faulty variant: every message is relayed as a text frame
onMessageAsText(m, message, isBinary) ==
  [m EXCEPT !.fe = [o \in Observers |->
                      IF o \in m.fc /\ m.fe[o].rs = "OPEN"
                      THEN [m.fe[o] EXCEPT !.inbox = Append(@, message),
                                           !.binary = Append(@, FALSE)]
                      ELSE m.fe[o]]]

\* targetWs.on('message'), the relay part
onMessage(m, message, isBinary) ==
  [m EXCEPT !.fe = [o \in Observers |->
                      IF o \in m.fc /\ m.fe[o].rs = "OPEN"
                      THEN [m.fe[o] EXCEPT !.inbox = Append(@, message),
                                           !.binary = Append(@, isBinary)]
                      ELSE m.fe[o]]]

\* ---- the step of an action: the handler's result becomes the next state ----
Commit(r) ==
  LET n == Normalize(r) IN
  /\ ~r.ovf
  /\ targetConnections' = n.tc
  /\ connState' = n.st
  /\ sockets' = n.sk
  /\ frontendClients' = n.fc
  /\ frontends' = n.fe
  /\ forwarded' = n.fwd
  /\ lastLog' = n.log
  /\ lastDelay' = n.delay
  /\ lastClosed' = n.closed
  /\ stopped' = n.down

Init ==
  /\ targetConnections = 0
  /\ connState = [id \in States |-> BlankState]
  /\ sockets = [s \in Sockets |-> BlankSocket]
  /\ frontendClients = {}
  /\ frontends = [o \in Observers |-> BlankFrontend]
  /\ lastLog = ""
  /\ lastDelay = 0
  /\ lastClosed = NoneClosed
  /\ registry = << >>
  /\ health = IdleHealth
  /\ arrived = 0
  /\ sent = 0
  /\ forwarded = << >>
  /\ undelivered = {}
  /\ intercepted = << >>
  /\ interceptors = [k \in 1..MaxMessages |-> IdleInterceptor]
  /\ stopped = FALSE
  /\ writers = [w \in Writers |-> IdleWriter]
  /\ mdns = StoppedMdns

\* ---- mdnsUtils: the service registry ----
Indices(list, name) == {i \in 1..Len(list) : list[i].name = name}

\* findIndex: the first index with the name, 0 for -1
findIndex(list, name) ==
  IF Indices(list, name) = {} THEN 0 ELSE Least(Indices(list, name))

\* faulty variant: a changed advertisement is added next to the old record
updateStoredServicesAppends(list, serviceInfo) ==
  LET i == findIndex(list, serviceInfo.name) IN
  IF i = 0 THEN [list |-> Append(list, serviceInfo), updated |-> TRUE]
  ELSE IF list[i].address # serviceInfo.address \/ list[i].port # serviceInfo.port
       THEN [list |-> Append(list, serviceInfo), updated |-> TRUE]
       ELSE [list |-> list, updated |-> FALSE]

\* faulty variant: every advertisement rewrites the record and reports a change
updateStoredServicesAlways(list, serviceInfo) ==
  LET i == findIndex(list, serviceInfo.name) IN
  IF i = 0 THEN [list |-> Append(list, serviceInfo), updated |-> TRUE]
  ELSE [list |-> [list EXCEPT ![i] = serviceInfo], updated |-> TRUE]

\* the list updateStoredServices would store, given the list it read, and
\* whether it stores it
updateStoredServices(list, serviceInfo) ==
  LET i == findIndex(list, serviceInfo.name) IN
  IF i = 0 THEN [list |-> Append(list, serviceInfo), updated |-> TRUE]
  ELSE IF list[i].address # serviceInfo.address \/ list[i].port # serviceInfo.port
       THEN [list |-> [list EXCEPT ![i] = serviceInfo], updated |-> TRUE]
       ELSE [list |-> list, updated |-> FALSE]

\* processMdnsService: a record without status
ServiceAt(a, p) == [name |-> ServiceName, address |-> a, port |-> p, status |-> "unset"]
ServiceInfo(a) == ServiceAt(a, DefaultPort)

\* ---- plugins/mdns.ts ----

\* browserInstance.on('up')
MdnsUp(a) ==
  LET r == updateStoredServices(registry, ServiceInfo(a)) IN
  /\ registry' = r.list
  /\ \E t \in ConstructorThrows : \E j \in JitterIf(t) :
       Commit([(IF r.updated THEN initializeTargetConnection(Pack, t, j) ELSE Pack)
                 EXCEPT !.log = "discovered"])
  /\ UNCHANGED <<health, writers, mdns, traffic>>

\* faulty variant: start-up initializes every stored service, whatever its status
RECURSIVE initStoredAll(_, _, _, _)
initStoredAll(m, list, throws, jitter) ==
  IF list = << >> THEN m
  ELSE initStoredAll(initializeTargetConnection(m, throws, jitter),
                     Tail(list), throws, jitter)

\* the delayed initial connection setup of startMdnsDiscovery, which runs at
\* plugin start and again after every discovery trigger request
RECURSIVE initStored(_, _, _, _)
initStored(m, list, throws, jitter) ==
  IF list = << >> THEN m
  ELSE initStored(IF Head(list).status # "down"
                  THEN initializeTargetConnection(m, throws, jitter) ELSE m,
                  Tail(list), throws, jitter)

DelayedInit ==
  /\ registry # << >>
  /\ \E t \in ConstructorThrows : \E j \in JitterIf(t) :
       Commit(initStored(Pack, registry, t, j))
  /\ UNCHANGED <<discovery, traffic>>

\* healthCheckInterval callback, up to the probes being started
HealthTick ==
  /\ health.pc = "idle"
  /\ registry # << >>
  /\ health' = [pc |-> "probing", list |-> registry,
                pending |-> 1..Len(registry), changed |-> FALSE]
  /\ Commit(Pack)
  /\ UNCHANGED <<registry, writers, mdns, traffic>>

\* faulty variant: the manager is notified of every probe result, changed or not
HealthProbeAlwaysNotifies(i, isHealthy) ==
  /\ health.pc = "probing"
  /\ i \in health.pending
  /\ LET originalStatus == health.list[i].status
         newStatus == IF isHealthy THEN "up" ELSE "down"
         differs == originalStatus # newStatus
         h == [health EXCEPT
                 !.pending = @ \ {i},
                 !.list[i].status = IF differs THEN newStatus ELSE @,
                 !.changed = @ \/ differs]
     IN /\ health' = IF h.pending = {} THEN IdleHealth ELSE h
        /\ registry' = IF h.pending = {} /\ h.changed THEN h.list ELSE registry
        /\ \E t \in ConstructorThrows : \E j \in JitterIf(t) :
             Commit(IF newStatus = "up"
                    THEN initializeTargetConnection(Pack, t, j)
                    ELSE closeTargetConnection(Pack))
  /\ UNCHANGED <<writers, mdns, traffic>>

\* the continuation of one probe: checkServiceHealth resolved with isHealthy.
\* When it is the last one, Promise.allSettled resolves and the rest of the
\* callback runs before any other event: the list is written back if changed.
HealthProbe(i, isHealthy) ==
  /\ health.pc = "probing"
  /\ i \in health.pending
  /\ LET originalStatus == health.list[i].status
         newStatus == IF isHealthy THEN "up" ELSE "down"
         differs == originalStatus # newStatus
         h == [health EXCEPT
                 !.pending = @ \ {i},
                 !.list[i].status = IF differs THEN newStatus ELSE @,
                 !.changed = @ \/ differs]
     IN /\ health' = IF h.pending = {} THEN IdleHealth ELSE h
        /\ registry' = IF h.pending = {} /\ h.changed THEN h.list ELSE registry
        /\ \E t \in ConstructorThrows : \E j \in JitterIf(t) :
             Commit(IF ~differs THEN Pack
                    ELSE IF newStatus = "up"
                    THEN initializeTargetConnection(Pack, t, j)
                    ELSE closeTargetConnection(Pack))
  /\ UNCHANGED <<writers, mdns, traffic>>

\* ---- api/discover/trigger.post.ts: the temporary scan stores what it found ----
ScanUp(a) ==
  /\ registry' = updateStoredServices(registry, ServiceInfo(a)).list
  /\ Commit(Pack)
  /\ UNCHANGED <<health, writers, mdns, traffic>>

\* ---- the delete-service handler ----
DeleteService ==
  /\ Indices(registry, ServiceName) # {}
  /\ registry' = SelectSeq(registry, LAMBDA s : s.name # ServiceName)
  /\ Commit(Pack)
  /\ UNCHANGED <<health, writers, mdns, traffic>>

\* ---- plugins/mdns.ts: starting and stopping discovery ----

\* the browser and the interval the module variables refer to are stopped
\* and the variables set to null
stopMdnsDiscovery(d) ==
  [d EXCEPT !.browsers = @ \ {d.browserInstance},
            !.browserInstance = 0,
            !.intervals = @ \ {d.healthCheckInterval},
            !.healthCheckInterval = 0]

\* startMdnsDiscovery up to its await: whatever the module variables hold is
\* stopped.  The trigger handler calls stopMdnsDiscovery and then this,
\* without awaiting it; the plugin calls it at start-up.
StartCall(k) ==
  /\ ~stopped
  /\ mdns.calls[k] = "idle"
  /\ \A i \in Starts : i < k => mdns.calls[i] # "idle"
  /\ mdns' = [stopMdnsDiscovery(mdns) EXCEPT !.calls[k] = "await"]
  /\ Commit(Pack)
  /\ UNCHANGED <<registry, health, writers, traffic>>

\* startMdnsDiscovery after its await: the browser and the interval are
\* created and stored in the module variables
StartResume(k) ==
  /\ mdns.calls[k] = "await"
  /\ mdns' = [mdns EXCEPT !.browserInstance = k,
                          !.browsers = @ \cup {k},
                          !.healthCheckInterval = k,
                          !.intervals = @ \cup {k},
                          !.calls[k] = "done"]
  /\ Commit(Pack)
  /\ UNCHANGED <<registry, health, writers, traffic>>

\* ---- the registry's read-modify-write cycles, one await at a time ----

\* who calls updateStoredServices: the background browser's 'up' handler or
\* the temporary scan of a discovery trigger request
UpdateKinds == {"browser", "scan"}

\* updateStoredServices from its call to the end of its synchronous part:
\* getItem has resolved with the stored list, the list to store is computed
\* and setItem is called (or the function returns false)
UpdateGet(w, kind, a, p) ==
  /\ writers[w].pc = "idle"
  /\ LET r == updateStoredServices(registry, ServiceAt(a, p)) IN
     writers' = [writers EXCEPT ![w] =
                   IF r.updated THEN [pc |-> "set", kind |-> kind, list |-> r.list]
                   ELSE IdleWriter]
  /\ Commit(Pack)
  /\ UNCHANGED <<registry, health, mdns, traffic>>

\* setItem takes effect and updateStoredServices returns true; the browser's
\* handler then initializes the connection
UpdateSet(w) ==
  /\ writers[w].pc = "set"
  /\ writers[w].kind \in UpdateKinds
  /\ registry' = writers[w].list
  /\ writers' = [writers EXCEPT ![w] = IdleWriter]
  /\ \E t \in ConstructorThrows : \E j \in JitterIf(t) :
       Commit(IF writers[w].kind = "browser"
              THEN initializeTargetConnection(Pack, t, j) ELSE Pack)
  /\ UNCHANGED <<health, mdns, traffic>>

\* the delete handler up to its setItem call; 404 when nothing was removed
DeleteGet(w) ==
  /\ writers[w].pc = "idle"
  /\ LET currentServices == SelectSeq(registry, LAMBDA s : s.name # ServiceName) IN
     /\ writers' = [writers EXCEPT ![w] =
                      IF Len(currentServices) = Len(registry) THEN IdleWriter
                      ELSE [pc |-> "set", kind |-> "delete", list |-> currentServices]]
     /\ Commit([Pack EXCEPT !.log =
                  IF Len(currentServices) = Len(registry) THEN "404" ELSE ""])
  /\ UNCHANGED <<registry, health, mdns, traffic>>

\* the delete handler's setItem takes effect; it answers 204
DeleteSet(w) ==
  /\ writers[w].pc = "set"
  /\ writers[w].kind = "delete"
  /\ registry' = writers[w].list
  /\ writers' = [writers EXCEPT ![w] = IdleWriter]
  /\ Commit([Pack EXCEPT !.log = "204"])
  /\ UNCHANGED <<health, mdns, traffic>>

\* ---- the relay upgrade listener ----
\* faulty variant: the registry is not consulted
UpgradeReplyNoLookup(m, list) ==
  IF ~hasActiveTargetConnection(m) THEN "503"
  ELSE IF getOpenTargetWebSocket(m) = 0 THEN "close1011"
  ELSE "attached"

\* faulty variant: a session that is still connecting accepts the observer
UpgradeReplyNoOpenCheck(m, list) ==
  IF Indices(list, ServiceName) = {} THEN "404"
  ELSE IF ~hasActiveTargetConnection(m) THEN "503"
  ELSE "attached"

\* the reply to one upgrade request for the service, given the registry it read
UpgradeReply(m, list) ==
  IF Indices(list, ServiceName) = {} THEN "404"
  ELSE IF ~hasActiveTargetConnection(m) THEN "503"
  ELSE IF getOpenTargetWebSocket(m) = 0 THEN "close1011"
  ELSE "attached"

\* the service name an upgrade request carries in its path; "" = no name
RequestNames == {"", ServiceName}

\* the outcome of one upgrade request: the name check comes before the lookup
UpgradeOutcome(name, m, list) ==
  IF name = "" THEN "400" ELSE UpgradeReply(m, list)

\* one upgrade request, from the registry lookup (which read list) to the reply
UpgradeRequest(name, list) ==
  /\ LET reply == UpgradeOutcome(name, Pack, list) IN
     \E t \in ConstructorThrows : \E j \in JitterIf(t) :
       IF reply = "503" THEN Commit(initializeTargetConnection(Pack, t, j))
       ELSE IF reply = "attached"
       THEN /\ \E o \in Observers : frontends[o].rs = "CLOSED"
            /\ LET o == Least({x \in Observers : frontends[x].rs = "CLOSED"}) IN
               Commit(addFrontendClient(
                 [Pack EXCEPT !.fe[o] = [rs |-> "OPEN", inbox |-> << >>, binary |-> << >>,
                                         since |-> arrived]], o))
       ELSE Commit(Pack)
  /\ UNCHANGED <<discovery, traffic>>

\* frontendWs.on('message')
FrontendMessage(o) ==
  /\ frontends[o].rs \in {"OPEN", "CLOSING"}
  /\ sent < MaxSends
  /\ sent' = sent + 1
  /\ undelivered' = IF getOpenTargetWebSocket(Pack) = 0
                    THEN undelivered \cup {sent + 1} ELSE undelivered
  /\ Commit(sendMessageToTarget(Pack, sent + 1))
  /\ UNCHANGED <<discovery, arrived, interception>>

\* the observer's peer starts the closing handshake: the library sets the
\* socket CLOSING when the close frame arrives and emits 'close' only once
\* the connection has ended, so the socket is still in the set meanwhile
FrontendClosing(o) ==
  /\ frontends[o].rs = "OPEN"
  /\ Commit([Pack EXCEPT !.fe[o].rs = "CLOSING"])
  /\ UNCHANGED <<discovery, traffic>>

\* frontendWs.on('close')
FrontendClose(o) ==
  /\ frontends[o].rs \in {"OPEN", "CLOSING"}
  /\ Commit(removeFrontendClient([Pack EXCEPT !.fe[o] = BlankFrontend], o))
  /\ UNCHANGED <<discovery, traffic>>

\* frontendWs.on('error'): ws has set the socket CLOSING before emitting
FrontendError(o) ==
  /\ frontends[o].rs = "OPEN"
  /\ Commit(removeFrontendClient([Pack EXCEPT !.fe[o].rs = "CLOSING"], o))
  /\ UNCHANGED <<discovery, traffic>>

\* ---- timers and upstream socket events ----
TimerFire(id) ==
  /\ connState[id].timer
  /\ \E t \in ConstructorThrows : \E j \in JitterIf(t) :
       Commit(connectToTarget([Pack EXCEPT !.st[id].timer = FALSE], t, j))
  /\ UNCHANGED <<discovery, traffic>>

SockOpen(s) ==
  /\ sockets[s].rs = "CONNECTING"
  /\ Commit(onOpen(Pack, s))
  /\ UNCHANGED <<discovery, traffic>>

\* a failed or aborted handshake: ws emits 'error' and 'close' back to back
SockFail(s) ==
  /\ sockets[s].rs \in {"CONNECTING", "ABORTED"}
  /\ \E j \in JitterPermille : Commit(onClose(onError(Pack, s), s, j))
  /\ UNCHANGED <<discovery, traffic>>

\* an error on an established connection; 'close' follows as its own event
SockError(s) ==
  /\ sockets[s].rs = "OPEN"
  /\ Commit(onError(Pack, s))
  /\ UNCHANGED <<discovery, traffic>>

SockClose(s) ==
  /\ sockets[s].rs \in {"OPEN", "CLOSING"}
  /\ \E j \in JitterPermille : Commit(onClose(Pack, s, j))
  /\ UNCHANGED <<discovery, traffic>>

\* a message from the target; the library still delivers frames that arrive
\* after close() was called locally.  The handler starts interceptMessage,
\* which runs up to its first await, and then relays the message.
UpstreamFrame(s, isBinary) ==
  /\ sockets[s].rs \in {"OPEN", "CLOSING"}
  /\ arrived < MaxMessages
  /\ arrived' = arrived + 1
  /\ interceptors' = [interceptors EXCEPT ![arrived + 1].pc = "get"]
  /\ Commit(onMessage(Pack, arrived + 1, isBinary))
  /\ UNCHANGED <<discovery, sent, undelivered, intercepted>>

\* a text message, the kind the interceptor stores as it is and bridges
UpstreamMessage(s) == UpstreamFrame(s, FALSE)

\* ---- messageInterceptor ----
\* the trim of interceptMessage: the last MAX_MESSAGES_PER_SERVICE entries
TrimMessages(messages) ==
  IF Len(messages) > MAX_MESSAGES_PER_SERVICE
  THEN SubSeq(messages, Len(messages) - MAX_MESSAGES_PER_SERVICE + 1, Len(messages))
  ELSE messages

\* faulty variant: an interceptor error reaches the relay path and takes the
\* observers of the service down
interceptFailureUnhandled(m, failed) ==
  IF failed THEN closeAssociatedFrontendClients(m, ABNORMAL, "error") ELSE m

\* the catch blocks of the interceptor and of sendToDiscord: the error is
\* written to the console and goes no further
interceptFailure(m, failed) ==
  [m EXCEPT !.log = IF failed THEN "interceptor error" ELSE ""]

\* storage.getItem settled: on success the invocation appends its message to
\* the list it read, trims it and issues storage.setItem
InterceptGet(k, ok) ==
  /\ interceptors[k].pc = "get"
  /\ interceptors' = [interceptors EXCEPT
                        ![k] = IF ok
                               THEN [pc |-> "set",
                                     messages |-> TrimMessages(Append(intercepted, k))]
                               ELSE [pc |-> "failed", messages |-> << >>]]
  /\ Commit(interceptFailure(Pack, ~ok))
  /\ UNCHANGED <<discovery, arrived, sent, undelivered, intercepted>>

\* storage.setItem settled: on success the list is stored and the invocation
\* (of a text message) asks for the bridge configuration
InterceptSet(k, ok) ==
  /\ interceptors[k].pc = "set"
  /\ intercepted' = IF ok THEN interceptors[k].messages ELSE intercepted
  /\ interceptors' = [interceptors EXCEPT
                        ![k] = [pc |-> IF ok THEN "bridge" ELSE "failed",
                                messages |-> << >>]]
  /\ Commit(interceptFailure(Pack, ~ok))
  /\ UNCHANGED <<discovery, arrived, sent, undelivered>>

\* what the bridging part can come to: the configuration cannot be read,
\* bridging is off, the configured regex is invalid, the message does not
\* match, it is posted to the webhook, or the post fails
BridgeOutcomes ==
  {"config error", "disabled", "bad regex", "no match", "posted", "post failed"}
BridgeErrors == {"config error", "bad regex", "post failed"}

\* getBridgeServiceConfig settled and the rest of the invocation ran
InterceptBridge(k, outcome) ==
  /\ interceptors[k].pc = "bridge"
  /\ interceptors' = [interceptors EXCEPT ![k].pc = "done"]
  /\ Commit(interceptFailure(Pack, outcome \in BridgeErrors))
  /\ UNCHANGED <<discovery, arrived, sent, undelivered, intercepted>>

\* ---- the manager as an open system: its exported functions may be called
\* at any time (by discovery, the health loop, start-up, the relay) ----
Initialize ==
  /\ \E t \in ConstructorThrows : \E j \in JitterIf(t) :
       Commit(initializeTargetConnection(Pack, t, j))
  /\ UNCHANGED <<discovery, traffic>>

CloseTarget ==
  /\ Commit(closeTargetConnection(Pack))
  /\ UNCHANGED <<discovery, traffic>>

\* the Nitro 'close' hook: discovery is stopped and the manager shut down
Shutdown ==
  /\ ~stopped
  /\ mdns' = stopMdnsDiscovery(mdns)
  /\ Commit(shutdownManager(Pack))
  /\ UNCHANGED <<registry, health, writers, traffic>>

\* an upgrade request; what the registry holds at that moment is an input
StoredLists == {<< >>} \cup {<<ServiceInfo(a)>> : a \in Addresses}
Upgrade == \E name \in RequestNames, list \in StoredLists : UpgradeRequest(name, list)

\* an upgrade request against the registry of the model
UpgradeStored == \E name \in RequestNames : UpgradeRequest(name, registry)

Events ==
  \/ \E id \in States : TimerFire(id)
  \/ \E s \in Sockets : SockOpen(s)
  \/ \E s \in Sockets : SockFail(s)
  \/ \E s \in Sockets : SockError(s)
  \/ \E s \in Sockets : SockClose(s)
  \/ \E o \in Observers : FrontendClose(o)
  \/ \E o \in Observers : FrontendError(o)

Next ==
  \/ Initialize
  \/ CloseTarget
  \/ Upgrade
  \/ Events

Spec == Init /\ [][Next]_vars

\* the manager until the application closes, and the events still processed
\* afterwards: once the hook has run nothing calls the manager any more
NextShutdown ==
  \/ ~stopped /\ Initialize
  \/ ~stopped /\ CloseTarget
  \/ ~stopped /\ Upgrade
  \/ Shutdown
  \/ Events

SpecShutdown == Init /\ [][NextShutdown]_vars

\* a reconnect timer that stays pending fires: setTimeout callbacks run
TimerFairness == \A id \in States : WF_vars(TimerFire(id))

\* the lifecycle of the session alone, without observers, up to and after
\* the shutdown
NextLifecycle ==
  \/ ~stopped /\ Initialize
  \/ ~stopped /\ CloseTarget
  \/ Shutdown
  \/ \E id \in States : TimerFire(id)
  \/ \E s \in Sockets : SockOpen(s)
  \/ \E s \in Sockets : SockFail(s)
  \/ \E s \in Sockets : SockError(s)
  \/ \E s \in Sockets : SockClose(s)

SpecLive == Init /\ [][NextLifecycle]_vars /\ TimerFairness

\* the manager with upstream messages relayed to the observers
NextFanout == Next \/ \E s \in Sockets : UpstreamMessage(s)
SpecFanout == Init /\ [][NextFanout]_vars

\* one upstream connection relaying text and binary frames to observers
\* that attach, start closing and leave
NextBroadcast ==
  \/ Initialize
  \/ Upgrade
  \/ \E s \in Sockets : SockOpen(s)
  \/ \E s \in Sockets : SockClose(s)
  \/ \E o \in Observers : FrontendClosing(o)
  \/ \E o \in Observers : FrontendClose(o)
  \/ \E s \in Sockets, isBinary \in BOOLEAN : UpstreamFrame(s, isBinary)

SpecBroadcast == Init /\ [][NextBroadcast]_vars

\* the manager with observer messages forwarded to the upstream
NextForward == Next \/ \E o \in Observers : FrontendMessage(o)
SpecForward == Init /\ [][NextForward]_vars

\* one upstream connection and its observers; the messages are intercepted
\* and stored
NextIntercept ==
  \/ Initialize
  \/ Upgrade
  \/ \E id \in States : TimerFire(id)
  \/ \E s \in Sockets : SockOpen(s)
  \/ \E s \in Sockets : SockFail(s)
  \/ \E s \in Sockets : SockClose(s)
  \/ \E s \in Sockets : UpstreamMessage(s)
  \/ \E k \in 1..MaxMessages, ok \in BOOLEAN : InterceptGet(k, ok)
  \/ \E k \in 1..MaxMessages, ok \in BOOLEAN : InterceptSet(k, ok)
  \/ \E k \in 1..MaxMessages, outcome \in BridgeOutcomes : InterceptBridge(k, outcome)

SpecIntercept == Init /\ [][NextIntercept]_vars

\* the manager driven by discovery, the health loop and the registry
NextDiscovery ==
  \/ \E a \in Addresses : MdnsUp(a)
  \/ \E a \in Addresses : ScanUp(a)
  \/ DelayedInit
  \/ HealthTick
  \/ \E i \in 1..Len(health.list), h \in BOOLEAN : HealthProbe(i, h)
  \/ DeleteService
  \/ UpgradeStored
  \/ Events

SpecDiscovery == Init /\ [][NextDiscovery]_vars

\* the registry under concurrent discovery updates, deletes and health
\* rounds, with the manager calls they make and the socket events that follow
NextRegistry ==
  \/ \E w \in Writers, kind \in UpdateKinds, a \in Addresses, p \in Ports :
       UpdateGet(w, kind, a, p)
  \/ \E w \in Writers : UpdateSet(w)
  \/ \E w \in Writers : DeleteGet(w)
  \/ \E w \in Writers : DeleteSet(w)
  \/ HealthTick
  \/ \E i \in 1..Len(health.list), h \in BOOLEAN : HealthProbe(i, h)
  \/ \E s \in Sockets : SockOpen(s)
  \/ \E s \in Sockets : SockFail(s)
  \/ \E s \in Sockets : SockClose(s)

SpecRegistry == Init /\ [][NextRegistry]_vars

\* the plugin started, restarted by discovery trigger requests and closed;
\* the browsers that run report the service and the intervals that run start
\* health rounds
NextMdns ==
  \/ \E k \in Starts : StartCall(k)
  \/ \E k \in Starts : StartResume(k)
  \/ Shutdown
  \/ (\E k \in Starts : mdns.calls[k] = "done") /\ DelayedInit
  \/ mdns.browsers # {} /\ \E a \in Addresses : MdnsUp(a)
  \/ mdns.intervals # {} /\ HealthTick
  \/ \E i \in 1..Len(health.list), h \in BOOLEAN : HealthProbe(i, h)
  \/ \E s \in Sockets : SockOpen(s)
  \/ \E s \in Sockets : SockFail(s)
  \/ \E s \in Sockets : SockClose(s)

SpecMdns == Init /\ [][NextMdns]_vars

\* ---- helpers of the properties ----
Session == connState[targetConnections]
HasSession == targetConnections # 0
CloseEvent(s) == sockets[s].rs # "CLOSED" /\ sockets'[s].rs = "CLOSED"
BaseDelay(k) == Min(INITIAL_RECONNECT_DELAY * Pow(RECONNECT_BACKOFF_FACTOR, k - 1),
                    MAX_RECONNECT_DELAY)
Range(q) == {q[i] : i \in 1..Len(q)}

\* C1: at most one upstream socket of the service is CONNECTING or OPEN
C1_SingleOwnership ==
  Cardinality({s \in Sockets : sockets[s].rs \in {"CONNECTING", "OPEN"}}) <= 1

\* C2: reconnectAttempts stays in 0..10, and the delay of the k-th scheduled
\* reconnect (k = reconnectAttempts after the increment) lies within
\* [0.9, 1.1] * min(1000ms * 2^(k-1), 30000ms)
C2_BoundedRetries ==
  /\ \A id \in States : connState[id].attempts \in 0..MAX_RECONNECT_ATTEMPTS
  /\ lastDelay # 0 =>
       /\ HasSession
       /\ Session.attempts \in 1..MAX_RECONNECT_ATTEMPTS
       /\ 10 * lastDelay >= 9 * BaseDelay(Session.attempts)
       /\ 10 * lastDelay <= 11 * BaseDelay(Session.attempts)

\* the 10th reconnect has just been scheduled, with the capped delay
C2_Witness ==
  /\ HasSession
  /\ Session.attempts = MAX_RECONNECT_ATTEMPTS
  /\ lastDelay = (MAX_RECONNECT_DELAY * 1099) \div 1000

\* C3: when the session's OPEN handle closes unexpectedly, the reconnect is
\* scheduled as attempt 1 with the base delay of 1s (+-10%), whatever happened
\* before the open
C3_ResetOnSuccess ==
  [][\A s \in Sockets :
       (/\ HasSession
        /\ Session.ws = s
        /\ sockets[s].rs = "OPEN"
        /\ ~Session.closing
        /\ CloseEvent(s))
       => /\ targetConnections' = targetConnections
          /\ connState'[targetConnections].attempts = 1
          /\ connState'[targetConnections].timer
          /\ 10 * lastDelay' >= 9 * INITIAL_RECONNECT_DELAY
          /\ 10 * lastDelay' <= 11 * INITIAL_RECONNECT_DELAY]_vars

\* an unexpected close of an OPEN handle that had observers: attempt 1 scheduled
C3_Witness ==
  /\ HasSession
  /\ Session.attempts = 1
  /\ lastDelay # 0
  /\ lastClosed.who # {}
  /\ lastClosed.reason = "disconnected"

\* C4: while the session is marked as closing intentionally (after
\* closeTargetConnection, before the next initialize), no reconnect timer
\* fires and connects to the service
C4_IntentionalCloseTerminal ==
  [][(HasSession /\ Session.closing) => ~(\E id \in States : TimerFire(id))]_vars

\* C5: an unexpected close with reconnectAttempts >= 10 deletes the session,
\* force-closes every observer with 1011 and a reason naming the service, and
\* schedules no reconnect timer
ReasonNamesService(reason) == reason \in {"retries", "disconnected", "error"}

C5_GiveUp ==
  [][(/\ HasSession
      /\ ~Session.closing
      /\ Session.attempts >= MAX_RECONNECT_ATTEMPTS
      /\ \E s \in Sockets : CloseEvent(s))
     => /\ targetConnections' = 0
        /\ frontendClients' = {}
        /\ \A o \in frontendClients : frontends'[o].rs # "OPEN"
        /\ lastClosed'.who = {o \in frontendClients : frontends[o].rs = "OPEN"}
        /\ lastClosed'.who # {} =>
             lastClosed'.code = ABNORMAL /\ ReasonNamesService(lastClosed'.reason)
        /\ lastDelay' = 0
        /\ \A id \in States : connState'[id].timer => connState[id].timer
        /\ lastLog' = "giveup"]_vars

C5_Witness == lastLog = "giveup" /\ ~HasSession

\* C6 as claimed: a non-null handle implies reconnectAttempts = 0
C6_HandleImpliesZeroAttempts ==
  (HasSession /\ Session.ws # 0) => Session.attempts = 0

\* C6 amended: a handle that is OPEN implies reconnectAttempts = 0
C6_OpenHandleZeroAttempts ==
  (HasSession /\ Session.ws # 0 /\ sockets[Session.ws].rs = "OPEN")
    => Session.attempts = 0

C6_Witness ==
  HasSession /\ Session.ws # 0 /\ sockets[Session.ws].rs = "OPEN"

\* C7: a session closing intentionally has no reconnect timer pending, and
\* it is removed from the map when the close event of its handle is processed
C7_ClosingSession ==
  [][/\ (HasSession /\ Session.closing) =>
          /\ ~Session.timer
          /\ \A s \in Sockets :
               (Session.ws = s /\ CloseEvent(s)) => targetConnections' = 0
     /\ (targetConnections' # 0 /\ connState'[targetConnections'].closing)
          => ~connState'[targetConnections'].timer]_vars

C7_Witness ==
  /\ HasSession /\ Session.closing
  /\ Session.ws # 0 /\ sockets[Session.ws].rs \in {"CLOSING", "ABORTED"}

\* C8: an observer joins the set only while the session's handle is OPEN
C8_AttachOnlyWhenOpen ==
  [][(\E o \in Observers : o \notin frontendClients /\ o \in frontendClients')
       => getOpenTargetWebSocket(Pack) # 0]_vars

C8_Witness ==
  /\ frontendClients # {}
  /\ HasSession /\ Session.ws # 0 /\ sockets[Session.ws].rs = "OPEN"

\* C9: an observer attached and writable since it joined has received exactly
\* the upstream messages that arrived since then, each once, in arrival order
C9_FanoutFidelity ==
  \A o \in frontendClients :
    frontends[o].rs = "OPEN" =>
      frontends[o].inbox =
        [i \in 1..(arrived - frontends[o].since) |-> frontends[o].since + i]

\* two observers attached before the first message have both received m1, m2
C9_Witness ==
  /\ Cardinality(frontendClients) = 2
  /\ \A o \in frontendClients :
       frontends[o].rs = "OPEN" /\ frontends[o].inbox = <<1, 2>>

Dropped == sent' = sent + 1 /\ (sent + 1) \in undelivered'

\* C10 as claimed: a message sent while the handle is not OPEN is never
\* written to the upstream, and its sender is told so
C10_DroppedAndReported ==
  [][/\ undelivered' \cap Range(forwarded') = {}
     /\ Dropped => (forwarded' = forwarded /\ frontends' # frontends)]_vars

\* C10 amended: such a message is never written to the upstream, now or
\* later; nothing is sent to the sender, the failure is only logged
C10_DroppedNotQueued ==
  [][/\ undelivered' \cap Range(forwarded') = {}
     /\ Dropped => /\ forwarded' = forwarded
                   /\ frontends' = frontends
                   /\ lastLog' = "cannot send"]_vars

\* message 1 was dropped, message 2, sent later, reached the upstream
C10_Witness == 1 \in undelivered /\ forwarded = <<2>>

\* the lifecycle part of a manager state: session, its handle, counter, timer, sockets
Lifecycle(m) == <<m.tc, m.st, m.sk>>

\* C11: while the session's handle is CONNECTING or OPEN, initializeTargetConnection,
\* called once or repeatedly, creates no socket and leaves the handle,
\* reconnectAttempts and the reconnect timer as they are
C11_InitializeIdempotent ==
  hasActiveTargetConnection(Pack) =>
    LET once == initializeTargetConnection(Pack, FALSE, 1000)
        twice == initializeTargetConnection(once, FALSE, 1000)
    IN /\ ~once.ovf /\ ~twice.ovf
       /\ Lifecycle(once) = Lifecycle(Pack)
       /\ Lifecycle(twice) = Lifecycle(Pack)

\* a reconnect attempt is in flight: handle CONNECTING, counter above 0
C11_Witness ==
  /\ hasActiveTargetConnection(Pack)
  /\ sockets[Session.ws].rs = "CONNECTING"
  /\ Session.attempts > 0

\* C12: closeTargetConnection on an existing session cancels the reconnect
\* timer, leaves no upstream socket of the service OPEN or CONNECTING, closes
\* all observers with code 1000 and empties the set, and removes the session
\* at once when it has no handle
C12_CloseTargetConnection ==
  HasSession =>
    LET r == closeTargetConnection(Pack) IN
    /\ ~r.st[targetConnections].timer
    /\ \A s \in Sockets : r.sk[s].rs \notin {"CONNECTING", "OPEN"}
    /\ r.fc = {}
    /\ \A o \in frontendClients : r.fe[o].rs # "OPEN"
    /\ r.closed.who # {} => r.closed.code = NORMAL
    /\ Session.ws = 0 => r.tc = 0

LifecycleVars == <<targetConnections, connState, sockets>>
Detach == \E o \in Observers : FrontendClose(o) \/ FrontendError(o)

\* C13 as claimed: no attach request, accepted or rejected, and no detach
\* changes the session's existence, handle, reconnectAttempts or timer
C13_ObserversArePassengers ==
  [][(Upgrade \/ Detach) => UNCHANGED LifecycleVars]_vars

\* C13 amended: an accepted attach, an attach rejected as bad-request,
\* not-found or not-OPEN while connecting, and a detach leave the lifecycle
\* state alone; an attach request that finds no CONNECTING or OPEN handle is
\* rejected and (re)initializes the session: a fresh CONNECTING handle,
\* reconnectAttempts 0, no timer
C13_PassengersExceptReinitialize ==
  [][/\ Detach => UNCHANGED LifecycleVars
     /\ \A name \in RequestNames, list \in StoredLists :
          UpgradeRequest(name, list) =>
            IF UpgradeOutcome(name, Pack, list) # "503"
            THEN UNCHANGED LifecycleVars
            ELSE /\ targetConnections' # 0
                 /\ connState'[targetConnections'].attempts = 0
                 /\ ~connState'[targetConnections'].timer
                 /\ ~connState'[targetConnections'].closing
                 /\ connState'[targetConnections'].ws # 0
                 /\ sockets'[connState'[targetConnections'].ws].rs = "CONNECTING"
                 /\ sockets[connState'[targetConnections'].ws].rs = "CLOSED"]_vars

\* two observers are attached to a live session
C13_Witness ==
  /\ Cardinality(frontendClients) = 2
  /\ HasSession /\ Session.ws # 0

\* a probe that turns a service recorded as not down into down / not up into up
HealthDownStep ==
  \E i \in health.pending : health.list[i].status # "down" /\ HealthProbe(i, FALSE)
HealthUpStep ==
  \E i \in health.pending : health.list[i].status # "up" /\ HealthProbe(i, TRUE)
NoTimerSet == \A id \in States : connState'[id].timer => connState[id].timer
HandleClosed(tc, st, sk) ==
  tc # 0 => (st[tc].ws = 0 \/ sk[st[tc].ws].rs \notin {"CONNECTING", "OPEN"})

C15_DeleteClosesSession ==
  [][DeleteService =>
       /\ (targetConnections' = 0 \/ connState'[targetConnections'].closing)
       /\ targetConnections' # 0 => ~connState'[targetConnections'].timer
       /\ frontendClients' = {}]_vars

ManagerVars == <<targetConnections, connState, sockets, frontendClients, frontends>>

\* C16: a probe result equal to the recorded status causes no manager call and
\* no registry write; a changed one calls initializeTargetConnection (up) or
\* closeTargetConnection (down); the registry is written only at the end of
\* a round in which some status changed
C16_HealthRoundOnlyOnChange ==
  [][\A i \in health.pending, isHealthy \in BOOLEAN :
       HealthProbe(i, isHealthy) =>
         LET same == health.list[i].status = (IF isHealthy THEN "up" ELSE "down") IN
         /\ same => UNCHANGED ManagerVars
         /\ (same /\ ~health.changed) => registry' = registry
         /\ registry' # registry => health.pending = {i}
         /\ (~same /\ isHealthy) =>
              (targetConnections' # 0 /\ ~connState'[targetConnections'].closing)
         /\ (~same /\ ~isHealthy) =>
              (targetConnections' = 0 \/ connState'[targetConnections'].closing)]_vars

\* a round probes a service recorded as up whose session is waiting to reconnect
C16_Witness ==
  /\ health.pc = "probing"
  /\ health.pending # {}
  /\ health.list[1].status = "up"
  /\ HasSession /\ Session.timer

\* C17: the start-up pass calls initializeTargetConnection for the stored
\* services whose status is not 'down' and for none recorded as 'down'
C17_StartupInitializesNotDown ==
  [][DelayedInit =>
       IF \E i \in 1..Len(registry) : registry[i].status # "down"
       THEN /\ targetConnections' # 0
            /\ ~connState'[targetConnections'].closing
            /\ ManagerVars' = LET r == Normalize(initializeTargetConnection(Pack, FALSE, 1000))
                              IN <<r.tc, r.st, r.sk, r.fc, r.fe>>
       ELSE UNCHANGED ManagerVars]_vars

\* the stored service is recorded as down and has no session: start-up leaves it so
C17_Witness ==
  /\ registry # << >> /\ registry[1].status = "down"
  /\ ~HasSession
  /\ health.pc = "idle"
  /\ \A s \in Sockets : sockets[s].rs = "CLOSED"

\* the four ways an attach request can end: HTTP 400, HTTP 404, HTTP 503 or
\* close(1011) right after the upgrade, and the observer kept in the set
AttachResult(reply) ==
  CASE reply = "400" -> "bad-request"
    [] reply = "404" -> "not-found"
    [] reply \in {"503", "close1011"} -> "unavailable"
    [] reply = "attached" -> "attached"
    [] OTHER -> "none"

UpstreamEvent == \E s \in Sockets : SockFail(s) \/ SockError(s) \/ SockClose(s)

TrailingWindow(n) ==
  [i \in 1..Min(n, MAX_MESSAGES_PER_SERVICE) |->
     n - Min(n, MAX_MESSAGES_PER_SERVICE) + i]

\* C20: once every interceptMessage invocation has completed (none of them
\* stopped by a storage error), the stored buffer holds the last min(N, 500)
\* of the N upstream messages, in arrival order
C20_TrailingWindow ==
  (\A k \in 1..arrived : interceptors[k].pc = "done")
    => intercepted = TrailingWindow(arrived)

InterceptorStep ==
  \/ \E k \in 1..MaxMessages, ok \in BOOLEAN : InterceptGet(k, ok) \/ InterceptSet(k, ok)
  \/ \E k \in 1..MaxMessages, outcome \in BridgeOutcomes : InterceptBridge(k, outcome)

\* C21: no step of an interceptMessage invocation, failing or not, touches the
\* session, the sockets, the observer set or what the observers have received;
\* and whatever the invocations are doing, an upstream message is written
\* once, unchanged, to every writable observer of the set and changes nothing else
C21_InterceptorIsolation ==
  [][/\ InterceptorStep =>
          /\ UNCHANGED <<ManagerVars, forwarded>>
          /\ lastDelay' = 0
          /\ lastClosed' = NoneClosed
     /\ (\E s \in Sockets : UpstreamMessage(s)) =>
          /\ UNCHANGED <<LifecycleVars, frontendClients, forwarded>>
          /\ \E isBinary \in BOOLEAN : \A o \in Observers :
               frontends'[o] =
                 IF o \in frontendClients /\ frontends[o].rs = "OPEN"
                 THEN [frontends[o] EXCEPT !.inbox = Append(@, arrived + 1),
                                           !.binary = Append(@, isBinary)]
                 ELSE frontends[o]]_vars

\* the invocation for message 1 ended in a storage error; the observer has
\* received messages 1 and 2 and its session is intact
C21_Witness ==
  /\ interceptors[1].pc = "failed"
  /\ lastLog = "interceptor error"
  /\ \E o \in frontendClients : frontends[o].rs = "OPEN" /\ frontends[o].inbox = <<1, 2>>
  /\ HasSession /\ Session.ws # 0 /\ sockets[Session.ws].rs = "OPEN"

\* what the reconnect path leaves behind: a timer for the session, or the
\* session given up
ReconnectPath ==
  \/ /\ targetConnections' = targetConnections
     /\ connState'[targetConnections].timer
     /\ connState'[targetConnections].ws = 0
     /\ connState'[targetConnections].attempts = Session.attempts + 1
     /\ lastDelay' # 0
  \/ /\ Session.attempts >= MAX_RECONNECT_ATTEMPTS
     /\ targetConnections' = 0
     /\ lastLog' = "giveup"
     /\ lastDelay' = 0

\* C22: while the session is not closing intentionally, an error on an upstream
\* socket ends in the reconnect path: the error handler itself clears the
\* handle and schedules nothing, and the close event of the socket (at once
\* for a failed handshake, as its own event for an established connection)
\* schedules the reconnect or gives the session up; error followed by close
\* leaves the session, the sockets and the observers as a close alone does
C22_ErrorFunnelsToReconnect ==
  [][\A s \in Sockets :
       /\ (HasSession /\ ~Session.closing /\ SockError(s)) =>
            /\ targetConnections' = targetConnections
            /\ connState'[targetConnections].ws = 0
            /\ sockets'[s].rs = "CLOSING"
            /\ lastDelay' = 0 /\ NoTimerSet
       /\ (HasSession /\ ~Session.closing /\ (SockFail(s) \/ SockClose(s))) =>
            ReconnectPath
       /\ sockets[s].rs = "OPEN" =>
            \A j \in JitterPermille :
              LET viaError == Normalize(onClose(onError(Pack, s), s, j))
                  closeOnly == Normalize(onClose(Pack, s, j))
              IN /\ Lifecycle(viaError) = Lifecycle(closeOnly)
                 /\ viaError.fc = closeOnly.fc
                 /\ viaError.fe = closeOnly.fe
                 /\ viaError.delay = closeOnly.delay
                 /\ viaError.closed.who = closeOnly.closed.who
                 /\ viaError.closed.code = closeOnly.closed.code]_vars

\* the error of an established connection has closed its observer; the close
\* event of the socket is still to come
C22_Witness ==
  /\ HasSession /\ ~Session.closing /\ Session.ws = 0 /\ ~Session.timer
  /\ \E s \in Sockets : sockets[s].rs = "CLOSING"
  /\ lastClosed.who # {} /\ lastClosed.reason = "error"

\* C23: once shutdownManager has run there is no session, no reconnect timer
\* is pending, no upstream socket is OPEN or CONNECTING, and it stays so
\* whatever socket and timer events are processed afterwards
C23_ShutdownIsFinal ==
  stopped =>
    /\ targetConnections = 0
    /\ \A id \in States : ~connState[id].timer
    /\ \A s \in Sockets : sockets[s].rs \notin {"OPEN", "CONNECTING"}

\* the state objects of the service that hold a pending reconnect timer
PendingTimers == {id \in States : connState[id].timer}

\* C24: at most one reconnect timer of the service is pending, and it belongs
\* to the session in the map: no timer outlives the removal of its session
C24_SingleTimer ==
  /\ Cardinality(PendingTimers) <= 1
  /\ \A id \in PendingTimers : id = targetConnections

\* a reconnect-timer callback or an upstream socket event runs
StaleCallback ==
  \/ \E id \in States : TimerFire(id)
  \/ \E s \in Sockets : SockOpen(s)
  \/ UpstreamEvent

\* C25: while the service has no session (it was removed, or never existed),
\* no reconnect-timer callback and no upstream socket event creates one: a
\* session appears only through an initialize call
C25_NoResurrection ==
  [][(~HasSession /\ targetConnections' # 0) => ~StaleCallback]_vars

\* C26: the close or error event of an observer removes that observer from
\* the set and nothing else: the other observers stay in the set with their
\* sockets untouched, and session, handle, reconnectAttempts, timer and the
\* upstream sockets are unchanged; nobody is force-closed, no timer is set
C26_ObserverEventIsLocal ==
  [][\A o \in Observers :
       (FrontendClose(o) \/ FrontendError(o)) =>
         /\ frontendClients' = frontendClients \ {o}
         /\ \A p \in Observers \ {o} : frontends'[p] = frontends[p]
         /\ frontends'[o].rs # "OPEN"
         /\ UNCHANGED <<LifecycleVars, forwarded>>
         /\ lastDelay' = 0
         /\ lastClosed' = NoneClosed]_vars

\* of two attached observers the first has gone; the second is still attached
\* to the OPEN session
C26_Witness ==
  /\ frontendClients = {2}
  /\ frontends[1].rs = "CLOSED" /\ frontends[2].rs = "OPEN"
  /\ HasSession /\ Session.ws # 0 /\ sockets[Session.ws].rs = "OPEN"

\* the session's connection attempt fails n times in a row (error and close
\* of the handle, then the scheduled timer fires and connects again) with
\* nothing else happening in between; timers = the reconnect timers scheduled
RECURSIVE FailingRun(_, _, _)
FailingRun(m, n, jitter) ==
  IF n = 0 \/ m.tc = 0 \/ m.st[m.tc].ws = 0 THEN [m |-> m, timers |-> 0]
  ELSE LET s == m.st[m.tc].ws
           failed == onClose(onError([m EXCEPT !.delay = 0, !.log = ""], s), s, jitter)
           scheduled == failed.tc # 0 /\ failed.st[failed.tc].timer
           retried == IF scheduled
                      THEN connectToTarget(
                             [failed EXCEPT !.st[failed.tc].timer = FALSE], FALSE, jitter)
                      ELSE failed
           rest == FailingRun(retried, n - 1, jitter)
       IN [m |-> rest.m, timers |-> rest.timers + (IF scheduled THEN 1 ELSE 0)]

\* a session at reconnectAttempts = 0 whose first attempt is under way, with
\* no other socket or timer of the service around
FreshSession ==
  /\ HasSession /\ ~Session.closing /\ ~Session.timer /\ Session.attempts = 0
  /\ Session.ws # 0 /\ sockets[Session.ws].rs = "CONNECTING"
  /\ \A s \in Sockets \ {Session.ws} : sockets[s].rs = "CLOSED"
  /\ PendingTimers = {}

\* C27: from such a session, with every attempt failing and nothing else
\* intervening, the n-th failure (n <= 10) schedules the n-th reconnect timer;
\* the failure of the 10th reconnect attempt deletes the session and schedules
\* nothing: 10 timers in all, never an 11th
C27_TenReconnectsThenGiveUp ==
  FreshSession =>
    \A jitter \in JitterPermille :
      /\ \A n \in 1..MAX_RECONNECT_ATTEMPTS :
           LET r == FailingRun(Pack, n, jitter) IN
           /\ r.timers = n
           /\ r.m.tc = targetConnections
           /\ r.m.st[r.m.tc].attempts = n
           /\ r.m.st[r.m.tc].ws # 0
           /\ ~r.m.ovf
      /\ \A n \in (MAX_RECONNECT_ATTEMPTS + 1)..(MAX_RECONNECT_ATTEMPTS + 2) :
           LET r == FailingRun(Pack, n, jitter) IN
           /\ r.timers = MAX_RECONNECT_ATTEMPTS
           /\ r.m.tc = 0
           /\ r.m.log = "giveup"
           /\ r.m.delay = 0
           /\ \A id \in States : ~r.m.st[id].timer
           /\ \A s \in Sockets : r.m.sk[s].rs = "CLOSED"

\* the end of such a run: the session has just been given up and nothing of
\* it is left, no socket and no timer
C27_Witness ==
  /\ ~HasSession /\ lastLog = "giveup"
  /\ PendingTimers = {}
  /\ \A s \in Sockets : sockets[s].rs = "CLOSED"

\* socket s has been superseded: the session holds another socket as its handle
Superseded(s) == HasSession /\ Session.ws # 0 /\ Session.ws # s

\* C28: an error or close event of a superseded socket leaves the session in
\* the map with its handle, reconnectAttempts, timer and flag as they are, and
\* closes no observer
C28_StaleEventIgnored ==
  [][\A s \in Sockets :
       (Superseded(s) /\ (SockFail(s) \/ SockError(s) \/ SockClose(s))) =>
         /\ targetConnections' = targetConnections
         /\ connState'[targetConnections] = Session
         /\ frontendClients' = frontendClients
         /\ frontends' = frontends
         /\ lastClosed' = NoneClosed
         /\ lastDelay' = 0]_vars

\* the session has no usable handle: null, CLOSING or CLOSED
HandleTerminal ==
  HasSession /\ (Session.ws = 0 \/ readyState(Pack, Session.ws) \in {"CLOSING", "CLOSED"})

\* exactly one upstream socket was created between sk and m, and it is the
\* session's handle
OneNewAttempt(m, sk) ==
  /\ m.tc # 0 /\ m.st[m.tc].ws # 0
  /\ sk[m.st[m.tc].ws].rs = "CLOSED"
  /\ m.sk[m.st[m.tc].ws].rs = "CONNECTING"
  /\ \A s \in Sockets \ {m.st[m.tc].ws} : m.sk[s] = sk[s]

\* C29: initializeTargetConnection on a session whose handle is null, CLOSING
\* or CLOSED keeps the session, cancels its timer, sets reconnectAttempts to
\* 0, clears the intentional-close flag and creates exactly one socket; with
\* no session it creates one with reconnectAttempts 0 and exactly one socket
C29_InitializeReconnects ==
  (~HasSession \/ HandleTerminal) =>
    LET r == initializeTargetConnection(Pack, FALSE, 1000) IN
    ~r.ovf =>
      /\ HasSession => r.tc = targetConnections
      /\ r.tc # 0
      /\ r.st[r.tc].attempts = 0
      /\ ~r.st[r.tc].timer
      /\ ~r.st[r.tc].closing
      /\ OneNewAttempt(r, sockets)
      /\ r.delay = 0
      /\ r.fc = frontendClients /\ r.fe = frontends

\* a session waiting for its 3rd reconnect, with no handle: the case in which
\* a re-initialization has a timer to cancel and a counter to reset
C29_Witness ==
  /\ HasSession /\ Session.ws = 0 /\ Session.timer /\ ~Session.closing
  /\ Session.attempts = 3
  /\ \E s \in Sockets : sockets[s].rs = "CLOSED"

\* the session waits for a reconnect: an unexpected close has scheduled a timer
AwaitingReconnect == HasSession /\ ~Session.closing /\ Session.timer

\* a connection attempt has been made for the session, or the session has
\* been closed intentionally, removed or shut down
ReconnectedOrClosed ==
  \/ HasSession /\ Session.ws # 0
  \/ HasSession /\ Session.closing
  \/ ~HasSession
  \/ stopped

\* C30: once an unexpected close has scheduled a reconnect for a session
\* that is not closing intentionally, the session eventually gets a new
\* connection attempt, unless it is closed, removed or shut down first
C30_ReconnectEventually == AwaitingReconnect ~> ReconnectedOrClosed

\* the names and addresses a registry list holds, whatever the statuses
Membership(list) == [i \in 1..Len(list) |-> <<list[i].name, list[i].address>>]

\* the step that ends a health-check round with the write-back of its list
HealthWriteBack ==
  /\ \E i \in health.pending, isHealthy \in BOOLEAN : HealthProbe(i, isHealthy)
  /\ registry' # registry

\* C31: the write-back of a health-check round changes statuses only: the
\* services and addresses the registry holds at that moment (after any delete
\* or discovery update committed during the round) are the ones it holds
\* afterwards
C31_WriteBackKeepsChanges ==
  [][HealthWriteBack => Membership(registry') = Membership(registry)]_vars

\* the session has a recorded upstream handle
HasHandle(tc, st) == tc # 0 /\ st[tc].ws # 0

\* a step after which the session that had a handle has none, or is gone
HandleLost ==
  /\ HasHandle(targetConnections, connState)
  /\ ~HasHandle(targetConnections', connState')

\* C32: whenever the observer set of the service is non-empty, the service has
\* a session and the session's recorded upstream handle is not null; every
\* step that nulls the handle or removes the session leaves the set empty
C32_ObserversImplyHandle ==
  /\ [](frontendClients # {} => HasHandle(targetConnections, connState))
  /\ [][HandleLost => frontendClients' = {}]_vars

\* the session is in backoff, its observers were force-closed and detached
C32_Witness ==
  /\ HasSession /\ Session.ws = 0 /\ Session.timer
  /\ frontendClients = {}
  /\ \E o \in Observers : frontends[o].rs = "CLOSING"

\* the members of the observer set whose socket is writable
Writable == {o \in frontendClients : frontends[o].rs = "OPEN"}

\* C34: an upstream message is written once, with the binary option it
\* arrived with, to exactly the writable members of the observer set; the
\* other observers receive and keep nothing of it, nobody is removed from the
\* set, and the session and the upstream sockets are untouched
C34_BestEffortBroadcast ==
  [][\A s \in Sockets, isBinary \in BOOLEAN :
       UpstreamFrame(s, isBinary) =>
         /\ \A o \in Writable :
              /\ frontends'[o].inbox = Append(frontends[o].inbox, arrived + 1)
              /\ frontends'[o].binary = Append(frontends[o].binary, isBinary)
              /\ frontends'[o].rs = "OPEN"
         /\ \A o \in Observers \ Writable : frontends'[o] = frontends[o]
         /\ UNCHANGED <<frontendClients, LifecycleVars, forwarded>>
         /\ lastDelay' = 0
         /\ lastClosed' = NoneClosed]_vars

\* a binary message has been relayed to the writable observer while the other
\* member of the set was closing: it received nothing and is still a member
C34_Witness ==
  /\ arrived >= 1
  /\ \E o \in frontendClients :
       /\ frontends[o].rs = "OPEN"
       /\ Len(frontends[o].binary) >= 1
       /\ frontends[o].binary[Len(frontends[o].binary)]
       /\ frontends[o].inbox[Len(frontends[o].inbox)] = arrived
  /\ \E o \in frontendClients :
       /\ frontends[o].rs = "CLOSING"
       /\ frontends[o].since < arrived
       /\ arrived \notin Range(frontends[o].inbox)

\* C35: whenever a reconnect timer is pending for the session, the session's
\* recorded upstream handle is null
C35_TimerImpliesNoHandle ==
  (HasSession /\ Session.timer) => Session.ws = 0

\* the session can still be reconnected: not closing, attempts left
Retryable == HasSession /\ ~Session.closing /\ Session.attempts < MAX_RECONNECT_ATTEMPTS

\* what one failure leaves in the manager state r, given the session as it
\* was before: one more attempt counted, one setTimeout issued, the session's
\* timer pending and no timer pending that was not pending before
OneReconnect(r) ==
  /\ r.tc = targetConnections
  /\ r.st[r.tc].attempts = Session.attempts + 1
  /\ r.st[r.tc].timer
  /\ r.delay # 0
  /\ {id \in States : r.st[id].timer} \subseteq PendingTimers \cup {r.tc}

\* C36: for a session that can still be reconnected, the error event of an
\* upstream socket increments nothing and schedules nothing, and the error
\* event followed by the close event of the same socket (in one step for a
\* failed handshake, as the next event for an established connection)
\* increments reconnectAttempts by exactly one and sets exactly one timer
C36_ErrorThenCloseCountsOnce ==
  [][\A s \in Sockets :
       /\ (Retryable /\ SockError(s)) =>
            /\ targetConnections' = targetConnections
            /\ connState'[targetConnections].attempts = Session.attempts
            /\ NoTimerSet
            /\ lastDelay' = 0
       /\ (Retryable /\ SockFail(s)) =>
            OneReconnect([tc |-> targetConnections', st |-> connState',
                          delay |-> lastDelay'])
       /\ (Retryable /\ sockets[s].rs = "OPEN") =>
            \A j \in JitterPermille :
              OneReconnect(Normalize(onClose(Normalize(onError(Pack, s)), s, j)))]_vars

\* reconnect 1 was scheduled by a close event that closed no observer itself:
\* the observers had been closed by the error event before it
C36_Witness ==
  /\ HasSession /\ Session.timer /\ Session.attempts = 1
  /\ lastDelay # 0
  /\ lastClosed.who = {}
  /\ \E o \in Observers : frontends[o].rs = "CLOSING"
  /\ \A s \in Sockets : sockets[s].rs = "CLOSED"

\* no two records of the list carry the same name
UniqueNames(list) ==
  \A i, k \in 1..Len(list) : list[i].name = list[k].name => i = k

\* C33: the registry never holds two records with the same name, whatever the
\* interleaving of the updateStoredServices calls of the browser and of the
\* temporary scan, the health rounds' write-backs and the deletes; and an
\* advertisement for a name the registry holds replaces the record when its
\* address or port differs and causes no write at all when they are the same
C33_UniqueNames ==
  /\ [](UniqueNames(registry))
  /\ [][\A w \in Writers, kind \in UpdateKinds, a \in Addresses, p \in Ports :
          UpdateGet(w, kind, a, p) =>
            LET i == findIndex(registry, ServiceName) IN
            /\ registry' = registry
            /\ IF i = 0
               THEN /\ writers'[w].pc = "set"
                    /\ writers'[w].list = Append(registry, ServiceAt(a, p))
               ELSE IF registry[i].address = a /\ registry[i].port = p
               THEN writers'[w] = IdleWriter
               ELSE /\ writers'[w].pc = "set"
                    /\ writers'[w].list = [registry EXCEPT ![i] = ServiceAt(a, p)]]_vars

\* the service has moved to the other port and is stored once, while a health
\* round and two more read-modify-write cycles (one of them a delete) are in
\* flight on lists read earlier
C33_Witness ==
  /\ Len(registry) = 1
  /\ registry[1].port # DefaultPort
  /\ health.pc = "probing"
  /\ \A w \in Writers : writers[w].pc = "set"
  /\ \E w \in Writers : writers[w].kind = "delete"
  /\ \E w \in Writers : writers[w].kind = "scan" /\ writers[w].list # registry

\* the registry holds the service at this address and port
Known(a, p) ==
  \E i \in 1..Len(registry) :
    /\ registry[i].name = ServiceName
    /\ registry[i].address = a
    /\ registry[i].port = p

\* C38: an advertisement of the background browser for a service the registry
\* holds with the same address and port writes nothing to the registry and
\* calls nothing in the manager: the session, its sockets, its timers and the
\* observers are as before, whether a session exists or not
C38_KnownAdvertisementIsNoOp ==
  [][\A a \in Addresses :
       (Known(a, DefaultPort) /\ MdnsUp(a)) =>
         /\ registry' = registry
         /\ UNCHANGED ManagerVars
         /\ lastDelay' = 0
         /\ lastClosed' = NoneClosed]_vars

\* the service was advertised again after a health round had recorded it as
\* down and closed its session: it is still recorded as down and has no session
C38_Witness ==
  /\ lastLog = "discovered"
  /\ Known("172.50.0.5", DefaultPort)
  /\ registry[1].status = "down"
  /\ ~HasSession

\* C37: at most one health-check interval and at most one background browser
\* are running
C37_SingleDiscoveryLoop ==
  /\ Cardinality(mdns.intervals) <= 1
  /\ Cardinality(mdns.browsers) <= 1
====
